---- MODULE Spec2Model ----
(***************************************************************************)
(* Model of ibid's versioned schema migration engine (ibid/models.py):     *)
(* VersionedSchema.upgrade_schema, Schema.SchemaSchema.upgrade_schema,     *)
(* VersionedSchema.is_up_to_date, check_schema_versions, upgrade_schemas.  *)
(*                                                                         *)
(* Database semantics assumed by the model (SQLAlchemy, as the code uses   *)
(* it):                                                                    *)
(*  - table.create(bind=session.bind) and table.create() on a bound        *)
(*    MetaData run on the engine, outside the session's transaction: the   *)
(*    CREATE TABLE is durable at once and trans.rollback() does not undo   *)
(*    it;                                                                  *)
(*  - statements an upgrade step issues through self.upgrade_session and   *)
(*    the Schema row the session saves belong to the session's             *)
(*    transaction: durable at trans.commit(), undone by trans.rollback()   *)
(*    or by the death of the process;                                      *)
(*  - Table.create() does not check for existence first: CREATE TABLE on   *)
(*    a table that exists raises;                                          *)
(*  - a query on a table that does not exist raises OperationalError.      *)
(*                                                                         *)
(* Three specifications: Spec, the migration engine from an empty          *)
(* database; SpecLegacy, the check and the upgrade run on a database that  *)
(* has user tables and no schema table; SpecOps, the column operations     *)
(* (add_column, drop_column, rename_column, alter_column, rebuild_sqlite)  *)
(* called by one upgrade method on one table.  In SpecOps the operations   *)
(* are called as their contract asks (the columns named exist, a new       *)
(* column's name is free), the rows of a table are a bag, and on mysql and *)
(* the other dialects a type is changed only when the stored values fit.   *)
(***************************************************************************)
EXTENDS Integers, Sequences, FiniteSets, Bags, TLC

\* ------------------------------------------------------------------ bounds

\* Highest version a table's VersionedSchema is ever declared at.
MaxVersion == 3
\* Number of model changes (a release that raises one table's version).
MaxChanges == 2
\* Depth of nested upgrade_schema calls at which the interpreter raises
\* "maximum recursion depth exceeded" (scaled down).
RecursionLimit == 4
\* Rows of the table an upgrade method works on.
MaxRows == 2
\* Column operations one upgrade method calls.
MaxOperations == 2

\* ------------------------------------------------------------------ tables

\* Schema.__table__: the version store's own table.
SchemaTable == "schema"

\* Tables carrying a plain VersionedSchema.
UserTables == {"accounts", "identities", "credentials"}

\* The tables whose declared version later releases raise.
Upgraded == {"accounts", "identities"}

\* metadata.tables
Tables == UserTables \cup {SchemaTable}

NoFks == [t \in UserTables |-> {}]

\* Foreign-key graphs the declared model is drawn from: the repository's own
\* (identities and credentials reference accounts), a chain, a two-table
\* cycle and a table referencing itself.
FkGraphs ==
  { [NoFks EXCEPT !["identities"] = {"accounts"}, !["credentials"] = {"accounts"}],
    [NoFks EXCEPT !["credentials"] = {"identities"}, !["identities"] = {"accounts"}],
    [NoFks EXCEPT !["accounts"] = {"identities"}, !["identities"] = {"accounts"}],
    [NoFks EXCEPT !["accounts"] = {"accounts"}] }

VARIABLES
  foreign_keys,            \* table.foreign_keys: table -> set of referenced tables
  version,                 \* VersionedSchema.version: table -> declared version
  missing,                 \* <<t, n>>: upgrade_(n-1)_to_n is not defined on t's schema
  broken,                  \* <<t, n>>: upgrade_(n-1)_to_n of t raises when run
  db_tables,               \* committed: table -> structure version, 0 = no such table
  records,                 \* committed Schema rows: table -> version, 0 = no row
  trans,                   \* uncommitted writes of the open session transaction
  stack,                   \* nested upgrade_schema calls, innermost last
  todo,                    \* tables upgrade_schemas has still to pass through
  phase,                   \* position of the process
  result,                  \* outcome of the last operation
  upgrades,                \* check_schema_versions: the out-of-date tables
  sessions,                \* owners of sessions opened and not closed
  upgrade_session,         \* tables whose schema has the attribute upgrade_session
  upgrade_reflected_model, \* tables whose schema has upgrade_reflected_model
  ddl,                     \* DDL statements executed per table in the current run
  records0,                \* Schema rows when the current run started
  failed_at,               \* <<t, n>>: the step at which the last failed run raised
  settled,                 \* the last run succeeded and nothing changed since
  repeat,                  \* the current run started in a settled state
  changes,                 \* model changes so far
  row_count,               \* committed: table name -> number of Schema rows of that name
  recorded                 \* table names a Schema row was ever committed for

\* The state of the column operations of one upgrade step (lines 102-207).
VARIABLES
  dialect,                 \* session.bind.dialect.name
  live,                    \* the table in the database: its columns and rows
  reflected,               \* get_reflected_model().c: column name -> type
  old_table,               \* the table "<name>_old" of a rebuild, or NoTable
  statements,              \* statements the current operation has executed
  operation,               \* the column operation called last, with its arguments
  before,                  \* the table when that operation was called
  position,                \* position inside rebuild_sqlite
  operations               \* column operations called so far

engine_vars == << foreign_keys, version, missing, broken, db_tables, records, trans,
                  stack, todo, phase, result, upgrades, sessions, upgrade_session,
                  upgrade_reflected_model, ddl, records0, failed_at, settled,
                  repeat, changes, row_count, recorded >>

ops_vars == << dialect, live, reflected, old_table, statements, operation,
               before, position, operations >>

vars == << engine_vars, ops_vars >>

model_vars == << foreign_keys, version, missing, broken, changes >>
db_vars == << db_tables, records, row_count, recorded >>
attr_vars == << sessions, upgrade_session, upgrade_reflected_model >>

\* ------------------------------------------------------------------ helpers

NoTrans == [table |-> "", record |-> 0, structure |-> 0, insert |-> FALSE]

NoDDL == [t \in Tables |-> 0]

\* A table of the database: its columns (name -> type) and its rows (each a
\* function column name -> value).
Table(columns, rows) == [exists |-> TRUE, columns |-> columns, rows |-> rows]

NoColumns == << >>

NoTable == [exists |-> FALSE, columns |-> NoColumns, rows |-> << >>]

\* A Column(): its name and type.  NoColumn stands for None.
Column(name, type) == [name |-> name, type |-> type]

NoColumn == [name |-> "", type |-> ""]

NoOperation ==
  [ kind |-> "none", col |-> NoColumn, old_name |-> "", length_only |-> FALSE,
    colmap |-> << >>, fullcolmap |-> << >>, rebuild |-> FALSE ]

\* session.bind.has_table(name)
has_table(t) == db_tables[t] # 0

Top == stack[Len(stack)]

Pop == SubSeq(stack, 1, Len(stack) - 1)

SetTop(f) == [stack EXCEPT ![Len(stack)] = f]

\* Mutant of Frame: the call skips the loop over the foreign keys.
FrameWithoutFks(t) ==
  [ table |-> t,
    fks |-> {},
    pc |-> IF t = SchemaTable THEN "schema" ELSE "fks",
    schema |-> 0,
    next |-> 0 ]

\* A fresh call of upgrade_schema on table t.
Frame(t) ==
  [ table |-> t,
    fks |-> IF t \in UserTables THEN foreign_keys[t] ELSE {},
    pc |-> IF t = SchemaTable THEN "schema" ELSE "fks",
    schema |-> 0,
    next |-> 0 ]

\* Mutant of CommitRecords: a commit with no pending row blanks the row.
CommitRecordsBlank(tr) == [records EXCEPT ![tr.table] = tr.record]

\* trans.commit() on the Schema rows: the pending row becomes durable.
CommitRecords(tr) ==
  IF tr.record # 0 THEN [records EXCEPT ![tr.table] = tr.record] ELSE records

\* The names with a committed row once the transaction is committed.
CommitRecorded(tr) ==
  recorded \cup { t \in Tables : CommitRecords(tr)[t] # 0 }

\* trans.commit() on the Schema rows: a saved new Schema object is one more
\* row of its table name; a changed one is the same row.
CommitRows(tr) ==
  IF tr.insert THEN [row_count EXCEPT ![tr.table] = @ + 1] ELSE row_count

\* trans.commit() on the tables: the pending structure change becomes durable.
CommitTables(tr) ==
  IF tr.structure # 0 THEN [db_tables EXCEPT ![tr.table] = tr.structure] ELSE db_tables

\* trans.rollback(): the pending writes are dropped.
Rollback == NoTrans

\* Table.create() on the engine: the table exists from now on, with the
\* structure of the declared model.
CreateTable(t) == [db_tables EXCEPT ![t] = version[t]]

\* Mutant of StepRecord: the row is set to the version after the step's.
StepRecordSkipping(n) == n + 1

\* schema.version = version; session.save_or_update(schema)
StepRecord(n) == n

\* Mutant of StepSavesNewRow: each step saves a new Schema object.
StepSavesNewRowAlways == TRUE

\* Lines 89-90 change the Schema object read at line 64: no new row.
StepSavesNewRow == FALSE

\* Mutant of CreatedVersion: a created table is recorded at version 1.
CreatedVersionOne(t) == 1

\* Line 76, Schema(unicode(self.table.name), self.version): the version a
\* created table is recorded at.
CreatedVersion(t) == version[t]

\* Line 67, "if not schema": the table has no Schema row.
NoRow(schema) == schema = 0

\* Mutant of Behind: ">=" for ">".
BehindOrEqual(t, schema) == version[t] >= schema

\* Line 79, "elif self.version > schema.version".
Behind(t, schema) == version[t] > schema

\* Mutant of FirstStep: the loop starts over from upgrade_1_to_2.
FirstStepFromOne(schema) == 2

\* Line 81, range(schema.version + 1, ...): the first step to run.
FirstStep(schema) == schema + 1

\* One more DDL statement executed on t in this run.
CountDDL(t) == [ddl EXCEPT ![t] = @ + 1]

\* is_up_to_date: the table exists and its Schema row holds the declared version.
is_up_to_date(t) == has_table(t) /\ records[t] = version[t]

\* The Schema query of is_up_to_date fails when the schema table is missing.
QueryFails(t) == has_table(t) /\ ~has_table(SchemaTable)

\* What a call of is_up_to_date(t) comes to, lines 44-51: only NoResultFound
\* is caught, so the error of the failing query leaves the method.
is_up_to_date_result(t) ==
  IF ~has_table(t) THEN "false"
  ELSE IF ~has_table(SchemaTable) THEN "raises"
  ELSE IF NoRow(records[t]) THEN "false"
  ELSE IF records[t] = version[t] THEN "true"
  ELSE "false"

\* Mutant of Raise: the exception is swallowed and the loop of upgrade_schemas
\* goes on with the next table.
RaiseAndContinue(at) ==
  /\ trans' = Rollback
  /\ stack' = << >>
  /\ todo' = todo
  /\ phase' = "loop"
  /\ result' = "failed"
  /\ failed_at' = at
  /\ settled' = FALSE

\* An exception leaves upgrade_schemas: the except clause has rolled back and
\* nothing below line 97 runs.
Raise(at) ==
  /\ trans' = Rollback
  /\ stack' = << >>
  /\ todo' = {}
  /\ phase' = "idle"
  /\ result' = "failed"
  /\ failed_at' = at
  /\ settled' = FALSE

\* upgrade_schema returns to its caller.
Return ==
  /\ stack' = Pop
  /\ phase' = IF phase = "bootstrap" THEN "loop" ELSE phase

\* ------------------------------------------------------------------ initial state

EngineInit ==
  /\ foreign_keys \in FkGraphs
  /\ version = [t \in Tables |-> 1]
  /\ missing = {}
  /\ broken = {}
  /\ db_tables = [t \in Tables |-> 0]
  /\ records = [t \in Tables |-> 0]
  /\ trans = NoTrans
  /\ stack = << >>
  /\ todo = {}
  /\ phase = "idle"
  /\ result = "none"
  /\ upgrades = {}
  /\ sessions = {}
  /\ upgrade_session = {}
  /\ upgrade_reflected_model = {}
  /\ ddl = NoDDL
  /\ records0 = records
  /\ failed_at = << >>
  /\ settled = FALSE
  /\ repeat = FALSE
  /\ changes = 0
  /\ row_count = [t \in Tables |-> 0]
  /\ recorded = {}

\* No upgrade method is running: the column operations are out of play.
NoOperations ==
  /\ dialect = "sqlite"
  /\ live = NoTable
  /\ reflected = NoColumns
  /\ old_table = NoTable
  /\ statements = << >>
  /\ operation = NoOperation
  /\ before = NoTable
  /\ position = "none"
  /\ operations = 0

Init == EngineInit /\ NoOperations

\* ------------------------------------------------------------------ upgrade_schemas

\* upgrade_schemas is called: line 354 calls the schema table's upgrade_schema.
upgrade_schemas ==
  /\ phase = "idle"
  /\ phase' = "bootstrap"
  /\ stack' = << Frame(SchemaTable) >>
  /\ todo' = Tables
  /\ result' = "running"
  /\ ddl' = NoDDL
  /\ records0' = records
  /\ repeat' = settled
  /\ settled' = FALSE
  /\ upgrades' = {}
  /\ UNCHANGED << model_vars, db_vars, trans, attr_vars, failed_at >>
  /\ UNCHANGED ops_vars

\* The loop of lines 356-361 takes the next table of metadata.tables (the
\* dictionary's order is arbitrary).
upgrade_schemas_loop ==
  /\ phase = "loop" /\ stack = << >> /\ todo # {}
  /\ \E t \in todo :
       /\ todo' = todo \ {t}
       /\ stack' = << Frame(t) >>
  /\ UNCHANGED << model_vars, db_vars, trans, phase, result, upgrades, attr_vars,
                  ddl, records0, failed_at, settled, repeat >>
  /\ UNCHANGED ops_vars

\* The loop is exhausted: upgrade_schemas returns normally.
upgrade_schemas_return ==
  /\ phase = "loop" /\ stack = << >> /\ todo = {}
  /\ phase' = "idle"
  /\ result' = "ok"
  /\ settled' = TRUE
  /\ failed_at' = << >>
  /\ UNCHANGED << model_vars, db_vars, trans, stack, todo, upgrades, attr_vars,
                  ddl, records0, repeat >>
  /\ UNCHANGED ops_vars

\* ------------------------------------------------------------------ SchemaSchema

\* Schema.SchemaSchema.upgrade_schema, lines 219-227 (and 229-230 when the
\* table exists): create the schema table when it is missing.
SchemaSchema_upgrade_schema ==
  /\ stack # << >> /\ Top.pc = "schema"
  /\ IF ~has_table(SchemaTable)
     THEN /\ db_tables' = CreateTable(SchemaTable)
          /\ ddl' = CountDDL(SchemaTable)
          /\ trans' = [table |-> SchemaTable, record |-> CreatedVersion(SchemaTable),
                       structure |-> 0, insert |-> TRUE]
          /\ sessions' = sessions \cup {SchemaTable}
          /\ stack' = SetTop([Top EXCEPT !.pc = "flush"])
          /\ UNCHANGED phase
     ELSE /\ Return
          /\ UNCHANGED << db_tables, ddl, trans, sessions >>
  /\ UNCHANGED << model_vars, records, row_count, recorded, todo, result, upgrades,
                  upgrade_session,
                  upgrade_reflected_model, records0, failed_at, settled, repeat >>
  /\ UNCHANGED ops_vars

\* Lines 229-230 after a creation: session.flush() writes the schema table's
\* own row, session.close().
SchemaSchema_flush ==
  /\ stack # << >> /\ Top.pc = "flush"
  /\ records' = CommitRecords(trans)
  /\ row_count' = CommitRows(trans)
  /\ recorded' = CommitRecorded(trans)
  /\ trans' = NoTrans
  /\ sessions' = sessions \ {SchemaTable}
  /\ Return
  /\ UNCHANGED << model_vars, db_tables, todo, result, upgrades, upgrade_session,
                  upgrade_reflected_model, ddl, records0, failed_at, settled,
                  repeat >>
  /\ UNCHANGED ops_vars

\* ------------------------------------------------------------------ VersionedSchema

\* Lines 56-59: upgrade the table a foreign key points to first.  A call nested
\* deeper than the interpreter allows raises.
upgrade_schema_fks ==
  /\ stack # << >> /\ Top.pc = "fks" /\ Top.fks # {}
  /\ \E dep \in Top.fks :
       IF Len(stack) >= RecursionLimit
       THEN /\ Raise(<< >>)
            /\ UNCHANGED << db_vars, attr_vars, ddl >>
       ELSE /\ stack' = Append(SetTop([Top EXCEPT !.fks = @ \ {dep}]), Frame(dep))
            /\ UNCHANGED << db_vars, attr_vars, ddl, trans, todo, phase, result,
                            failed_at, settled >>
  /\ UNCHANGED << model_vars, upgrades, records0, repeat >>
  /\ UNCHANGED ops_vars

\* Lines 61-64 and the tests of lines 67 and 79: open the session, begin,
\* read the table's Schema row, reflect when there are steps to run.
upgrade_schema_begin ==
  /\ stack # << >> /\ Top.pc = "fks" /\ Top.fks = {}
  /\ LET t == Top.table
         schema == records[t]
     IN /\ sessions' = sessions \cup {t}
        /\ upgrade_session' = upgrade_session \cup {t}
        /\ IF ~has_table(SchemaTable)
           THEN /\ Raise(<< >>)
                /\ UNCHANGED upgrade_reflected_model
           ELSE /\ trans' = [NoTrans EXCEPT !.table = t]
                /\ stack' = SetTop([Top EXCEPT
                     !.schema = schema,
                     !.next = FirstStep(schema),
                     !.pc = IF NoRow(schema) THEN "create"
                            ELSE IF Behind(t, schema) THEN "steps"
                            ELSE "commit"])
                /\ upgrade_reflected_model' =
                     IF ~NoRow(schema) /\ Behind(t, schema)
                     THEN upgrade_reflected_model \cup {t}
                     ELSE upgrade_reflected_model
                /\ UNCHANGED << todo, phase, result, failed_at, settled >>
  /\ UNCHANGED << model_vars, db_vars, upgrades, ddl, records0, repeat >>
  /\ UNCHANGED ops_vars

\* Lines 67-77: no Schema row: create the table and save its row.
upgrade_schema_create ==
  /\ stack # << >> /\ Top.pc = "create"
  /\ LET t == Top.table
     IN IF has_table(t)
        THEN /\ Raise(<< >>)
             /\ UNCHANGED << db_tables, ddl >>
        ELSE /\ db_tables' = CreateTable(t)
             /\ ddl' = CountDDL(t)
             /\ trans' = [trans EXCEPT !.record = CreatedVersion(t), !.insert = TRUE]
             /\ stack' = SetTop([Top EXCEPT !.pc = "commit"])
             /\ UNCHANGED << todo, phase, result, failed_at, settled >>
  /\ UNCHANGED << model_vars, records, row_count, recorded, upgrades, attr_vars,
                  records0,
                  repeat >>
  /\ UNCHANGED ops_vars

\* Lines 81-91, one pass of the loop: commit what the previous pass left,
\* begin, run upgrade_(n-1)_to_n, set the row's version.
upgrade_schema_step ==
  /\ stack # << >> /\ Top.pc = "steps"
  /\ LET t == Top.table
         n == Top.next
     IN /\ records' = CommitRecords(trans)
        /\ row_count' = CommitRows(trans)
        /\ recorded' = CommitRecorded(trans)
        /\ db_tables' = CommitTables(trans)
        /\ IF << t, n >> \in missing
           THEN /\ Raise(<< t, n >>)
                /\ UNCHANGED << ddl, upgrade_reflected_model >>
           ELSE IF << t, n >> \in broken
           THEN /\ Raise(<< t, n >>)
                /\ ddl' = CountDDL(t)
                /\ UNCHANGED upgrade_reflected_model
           ELSE /\ trans' = [table |-> t, record |-> StepRecord(n), structure |-> n,
                             insert |-> StepSavesNewRow]
                /\ ddl' = CountDDL(t)
                /\ stack' = SetTop([Top EXCEPT
                     !.next = n + 1,
                     !.pc = IF n >= version[t] THEN "commit" ELSE "steps"])
                /\ upgrade_reflected_model' =
                     IF n >= version[t]
                     THEN upgrade_reflected_model \ {t}
                     ELSE upgrade_reflected_model
                /\ UNCHANGED << todo, phase, result, failed_at, settled >>
  /\ UNCHANGED << model_vars, upgrades, sessions, upgrade_session, records0,
                  repeat >>
  /\ UNCHANGED ops_vars

\* Lines 93-100: the final commit, session.close(), del self.upgrade_session.
upgrade_schema_commit ==
  /\ stack # << >> /\ Top.pc = "commit"
  /\ records' = CommitRecords(trans)
  /\ row_count' = CommitRows(trans)
  /\ recorded' = CommitRecorded(trans)
  /\ db_tables' = CommitTables(trans)
  /\ trans' = NoTrans
  /\ sessions' = sessions \ {Top.table}
  /\ upgrade_session' = upgrade_session \ {Top.table}
  /\ Return
  /\ UNCHANGED << model_vars, todo, result, upgrades, upgrade_reflected_model,
                  ddl, records0, failed_at, settled, repeat >>
  /\ UNCHANGED ops_vars

\* ------------------------------------------------------------------ check_schema_versions

\* The tables check_schema_versions collects in upgrades.
OutOfDate == { t \in Tables : ~is_up_to_date(t) }

\* Mutant of check_schema_versions: a table found without its Schema row is
\* given one.
check_schema_versions_repairing ==
  /\ phase = "idle"
  /\ records' = [t \in Tables |->
                   IF has_table(t) /\ records[t] = 0 THEN version[t] ELSE records[t]]
  /\ upgrades' = OutOfDate
  /\ result' = IF OutOfDate = {} THEN "up_to_date" ELSE "out_of_date"
  /\ UNCHANGED << model_vars, db_tables, row_count, recorded, trans, stack, todo, phase,
                  attr_vars, ddl, records0, failed_at, settled, repeat >>
  /\ UNCHANGED ops_vars

\* check_schema_versions, lines 335-348.  Its session is a local that nothing
\* refers to after the return.
check_schema_versions ==
  /\ phase = "idle"
  /\ IF \E t \in Tables : QueryFails(t)
     THEN /\ result' = "check_error"
          /\ upgrades' = {}
     ELSE /\ upgrades' = OutOfDate
          /\ result' = IF OutOfDate = {} THEN "up_to_date" ELSE "out_of_date"
  /\ UNCHANGED << model_vars, db_vars, trans, stack, todo, phase, attr_vars,
                  ddl, records0, failed_at, settled, repeat >>
  /\ UNCHANGED ops_vars

\* ------------------------------------------------------------------ environment

\* The process dies in the middle of upgrade_schemas: the database rolls the
\* open transaction back; what was committed stays.
process_dies ==
  /\ phase # "idle"
  /\ trans' = NoTrans
  /\ stack' = << >>
  /\ todo' = {}
  /\ phase' = "idle"
  /\ result' = "died"
  /\ failed_at' = << >>
  /\ settled' = FALSE
  /\ sessions' = {}
  /\ upgrade_session' = {}
  /\ upgrade_reflected_model' = {}
  /\ ddl' = NoDDL
  /\ records0' = records
  /\ repeat' = FALSE
  /\ UNCHANGED << model_vars, db_vars, upgrades >>
  /\ UNCHANGED ops_vars

\* A release is installed and a new process started: nothing of the old
\* process's memory remains.
NewProcess ==
  /\ result' = "none"
  /\ upgrades' = {}
  /\ sessions' = {}
  /\ upgrade_session' = {}
  /\ upgrade_reflected_model' = {}
  /\ ddl' = NoDDL
  /\ records0' = records
  /\ settled' = FALSE
  /\ repeat' = FALSE

\* A release raises the declared version of one table by one; its upgrade
\* method is sound, raises when run, or was forgotten.
model_change ==
  /\ phase = "idle"
  /\ \E t \in Upgraded, kind \in {"sound", "broken", "missing"} :
       /\ version[t] < MaxVersion
       /\ version' = [version EXCEPT ![t] = @ + 1]
       /\ missing' = IF kind = "missing" THEN missing \cup {<< t, version[t] + 1 >>}
                     ELSE missing
       /\ broken' = IF kind = "broken" THEN broken \cup {<< t, version[t] + 1 >>}
                    ELSE broken
  /\ changes < MaxChanges
  /\ changes' = changes + 1
  /\ failed_at' = << >>
  /\ NewProcess
  /\ UNCHANGED << foreign_keys, db_vars, trans, stack, todo, phase >>
  /\ UNCHANGED ops_vars

\* A corrected release: a forgotten or failing upgrade method is repaired.
model_fix ==
  /\ phase = "idle"
  /\ \E s \in missing \cup broken :
       /\ missing' = missing \ {s}
       /\ broken' = broken \ {s}
  /\ NewProcess
  /\ UNCHANGED << foreign_keys, version, changes, db_vars, trans, stack, todo,
                  phase, failed_at >>
  /\ UNCHANGED ops_vars

Next ==
  \/ upgrade_schemas
  \/ upgrade_schemas_loop
  \/ upgrade_schemas_return
  \/ SchemaSchema_upgrade_schema
  \/ SchemaSchema_flush
  \/ upgrade_schema_fks
  \/ upgrade_schema_begin
  \/ upgrade_schema_create
  \/ upgrade_schema_step
  \/ upgrade_schema_commit
  \/ check_schema_versions
  \/ process_dies
  \/ model_change
  \/ model_fix

Spec == Init /\ [][Next]_vars

\* ------------------------------------------------------------------ a database without the schema table

\* The databases made before the schema table was introduced (or whose schema
\* table was lost): any set of the user tables exists, at the structure of
\* version 1, and nothing is recorded.
LegacyDatabases ==
  { [t \in Tables |-> IF t \in S THEN 1 ELSE 0] : S \in SUBSET UserTables }

InitLegacy ==
  /\ foreign_keys \in FkGraphs
  /\ version = [t \in Tables |-> 1]
  /\ missing = {}
  /\ broken = {}
  /\ db_tables \in LegacyDatabases
  /\ records = [t \in Tables |-> 0]
  /\ trans = NoTrans
  /\ stack = << >>
  /\ todo = {}
  /\ phase = "idle"
  /\ result = "none"
  /\ upgrades = {}
  /\ sessions = {}
  /\ upgrade_session = {}
  /\ upgrade_reflected_model = {}
  /\ ddl = NoDDL
  /\ records0 = records
  /\ failed_at = << >>
  /\ settled = FALSE
  /\ repeat = FALSE
  /\ changes = 0
  /\ row_count = [t \in Tables |-> 0]
  /\ recorded = {}
  /\ NoOperations

\* What the program does with such a database: the check at startup and the
\* upgrade run of ibid-setup, with the model as it was released.
NextLegacy ==
  \/ check_schema_versions
  \/ upgrade_schemas
  \/ upgrade_schemas_loop
  \/ upgrade_schemas_return
  \/ SchemaSchema_upgrade_schema
  \/ SchemaSchema_flush
  \/ upgrade_schema_fks
  \/ upgrade_schema_begin
  \/ upgrade_schema_create
  \/ upgrade_schema_commit
  \/ process_dies

SpecLegacy == InitLegacy /\ [][NextLegacy]_vars

\* ------------------------------------------------------------------ column operations

\* session.bind.dialect.name; "postgres" stands for every dialect that is
\* neither sqlite nor mysql.
Dialects == {"sqlite", "mysql", "postgres"}

ColumnNames == {"id", "x", "y"}

\* Unicode(1) and Unicode(2).
ColumnTypes == {"short", "long"}

Capacity(type) == IF type = "short" THEN 1 ELSE 2

Length(value) == IF value = "bb" THEN 2 ELSE IF value = "NULL" THEN 0 ELSE 1

\* old_name=None
NoName == ""

\* The table an upgrade method finds: columns id and x, up to MaxRows rows.
\* Only sqlite stores a value longer than its column's declared length.
InitialColumns == [c \in {"id", "x"} |-> IF c = "id" THEN "long" ELSE "short"]

InitialValues(d) == IF d = "sqlite" THEN {"a", "bb"} ELSE {"a"}

\* Row i has the id i.
InitialTables(d) ==
  UNION { { Table(InitialColumns,
                  SetToBag({ [c \in {"id", "x"} |->
                                IF c = "id" THEN ToString(i) ELSE f[i]] : i \in 1..n })) :
            f \in [1..n -> InitialValues(d)] } : n \in 0..MaxRows }

\* Every value stored in column c fits the type.
Fits(table, c, type) ==
  \A r \in BagToSet(table.rows) : Length(r[c]) <= Capacity(type)

\* The column c of a table is taken away.
WithoutColumn(table, c) ==
  LET Rest(r) == [n \in DOMAIN r \ {c} |-> r[n]]
  IN Table([n \in DOMAIN table.columns \ {c} |-> table.columns[n]],
           BagOfAll(Rest, table.rows))

\* A column is added to a table; the rows there are have NULL in it.
WithColumn(table, col) ==
  LET More(r) == [n \in DOMAIN r \cup {col.name} |->
                    IF n = col.name THEN "NULL" ELSE r[n]]
  IN Table([n \in DOMAIN table.columns \cup {col.name} |->
              IF n = col.name THEN col.type ELSE table.columns[n]],
           BagOfAll(More, table.rows))

\* The column old of a table gets the name new; its values stay.
Renamed(table, old, new) ==
  LET Old(n) == IF n = new THEN old ELSE n
      Names == (DOMAIN table.columns \ {old}) \cup {new}
      Row(r) == [n \in Names |-> r[Old(n)]]
  IN Table([n \in Names |-> table.columns[Old(n)]], BagOfAll(Row, table.rows))

\* The column c of a table gets the type of the specification.
Retyped(table, c, type) ==
  [table EXCEPT !.columns = [table.columns EXCEPT ![c] = type]]

\* table.append_column(col) on the reflected table, lines 115 and 201.
append_column(columns, col) ==
  [n \in DOMAIN columns \cup {col.name} |->
     IF n = col.name THEN col.type ELSE columns[n]]

\* The column maps rebuild_sqlite is called with: the old names are columns
\* of the table, no new column takes the name of another column, no two new
\* columns share a name, and a column is left.
ColumnMaps(columns, keys) ==
  { m \in [keys -> {NoColumn} \cup { Column(n, t) : n \in ColumnNames, t \in ColumnTypes }] :
      /\ \A o \in keys :
           m[o] # NoColumn => m[o].name \notin (DOMAIN columns \ {o})
      /\ \A o1, o2 \in keys :
           (o1 # o2 /\ m[o1] # NoColumn /\ m[o2] # NoColumn) => m[o1].name # m[o2].name
      /\ (DOMAIN columns \ keys) \cup { o \in keys : m[o] # NoColumn } # {} }

\* Lines 190-196: old name -> new name of every column that is kept.
fullcolmap(columns, colmap) ==
  [o \in { c \in DOMAIN columns : c \in DOMAIN colmap => colmap[c] # NoColumn } |->
     IF o \in DOMAIN colmap THEN colmap[o].name ELSE o]

\* Mutant of RebuiltColumns: the column of an entry mapped to None is not
\* deleted from the reflected table.
RebuiltColumnsKeepingDropped(columns, colmap) ==
  LET new == { colmap[o] : o \in { k \in DOMAIN colmap : colmap[k] # NoColumn } }
      kept == DOMAIN columns \ { k \in DOMAIN colmap : colmap[k] # NoColumn }
  IN [n \in kept \cup { c.name : c \in new } |->
        IF \E c \in new : c.name = n
        THEN (CHOOSE c \in new : c.name = n).type
        ELSE columns[n]]

\* Lines 198-201: the reflected table after del table.c[old] and
\* table.append_column(col) for every entry of colmap.
RebuiltColumns(columns, colmap) ==
  LET new == { colmap[o] : o \in { k \in DOMAIN colmap : colmap[k] # NoColumn } }
      kept == DOMAIN columns \ DOMAIN colmap
  IN [n \in kept \cup { c.name : c \in new } |->
        IF \E c \in new : c.name = n
        THEN (CHOOSE c \in new : c.name = n).type
        ELSE columns[n]]

\* Mutant of InsertSelect: the rows are copied column by column under the
\* names of the new table, so a renamed column is not filled.
InsertSelectByName(rows, columns, fcm) ==
  LET Row(r) == [c \in columns |-> IF c \in DOMAIN r THEN r[c] ELSE "NULL"]
  IN BagOfAll(Row, rows)

\* Lines 205-206: INSERT INTO t (new names) SELECT old names FROM t_old.  A
\* column of the new table that is not in the list is NULL.  The order of the
\* rows is not determined: the rows are a bag.
InsertSelect(rows, columns, fcm) ==
  LET Row(r) == [c \in columns |->
                   IF \E o \in DOMAIN fcm : fcm[o] = c
                   THEN r[CHOOSE o \in DOMAIN fcm : fcm[o] = c]
                   ELSE "NULL"]
  IN BagOfAll(Row, rows)

\* Mutant of LengthOnlyReturns: the shortcut of lines 162-165 is not taken.
LengthOnlyRebuilds(length_only) == FALSE

\* Lines 163-165: on sqlite a change of length alone does nothing.
LengthOnlyReturns(length_only) == length_only

\* Mutant of alter_column_native: the type is altered before the rename.
alter_column_retype_first(d, old_name) ==
  IF d = "mysql" THEN << "CHANGE" >>
  ELSE IF old_name # NoName THEN << "ALTER COLUMN TYPE", "RENAME COLUMN" >>
  ELSE << "ALTER COLUMN TYPE" >>

\* Lines 169-177: the statements alter_column executes on a dialect other
\* than sqlite.
alter_column_native(d, old_name) ==
  IF d = "mysql" THEN << "CHANGE" >>
  ELSE IF old_name # NoName THEN << "RENAME COLUMN", "ALTER COLUMN TYPE" >>
  ELSE << "ALTER COLUMN TYPE" >>

\* An operation is called: its arguments and the table it finds are noted.
Call(kind, col, old_name, length_only) ==
  /\ position = "none"
  /\ operations < MaxOperations
  /\ operations' = operations + 1
  /\ before' = live
  /\ operation' = [NoOperation EXCEPT !.kind = kind, !.col = col,
                     !.old_name = old_name, !.length_only = length_only]

\* rebuild_sqlite up to the rename of line 203.
BeginRebuild(kind, col, old_name, length_only, colmap) ==
  /\ position = "none"
  /\ operations < MaxOperations
  /\ operations' = operations + 1
  /\ before' = live
  /\ operation' = [ kind |-> kind, col |-> col, old_name |-> old_name,
                    length_only |-> length_only, colmap |-> colmap,
                    fullcolmap |-> fullcolmap(reflected, colmap), rebuild |-> TRUE ]
  /\ reflected' = RebuiltColumns(reflected, colmap)
  /\ old_table' = live
  /\ live' = NoTable
  /\ statements' = << "RENAME TO" >>
  /\ position' = "renamed"

InitOps ==
  /\ EngineInit
  /\ foreign_keys["identities"] = {"accounts"} /\ foreign_keys["credentials"] = {"accounts"}
  /\ dialect \in Dialects
  /\ live \in InitialTables(dialect)
  /\ reflected = live.columns
  /\ old_table = NoTable
  /\ statements = << >>
  /\ operation = NoOperation
  /\ before = live
  /\ position = "none"
  /\ operations = 0

\* add_column, lines 107-120.
add_column ==
  \E n \in ColumnNames \ DOMAIN live.columns, t \in ColumnTypes :
    /\ Call("add_column", Column(n, t), NoName, FALSE)
    /\ reflected' = append_column(reflected, Column(n, t))
    /\ statements' = << "ADD COLUMN" >>
    /\ live' = WithColumn(live, Column(n, t))
    /\ UNCHANGED << dialect, old_table, position, engine_vars >>

\* drop_column, lines 122-132.
drop_column ==
  \E c \in DOMAIN live.columns :
    /\ DOMAIN live.columns # {c}
    /\ IF dialect = "sqlite"
       THEN BeginRebuild("drop_column", NoColumn, c, FALSE, [o \in {c} |-> NoColumn])
       ELSE /\ Call("drop_column", NoColumn, c, FALSE)
            /\ statements' = << "DROP COLUMN" >>
            /\ live' = WithoutColumn(live, c)
            /\ UNCHANGED << reflected, old_table, position >>
    /\ UNCHANGED << dialect, engine_vars >>

\* rename_column, lines 134-147; on mysql through alter_column, line 169.
rename_column ==
  \E old \in DOMAIN live.columns, n \in ColumnNames \ DOMAIN live.columns,
     t \in ColumnTypes :
    /\ IF dialect = "sqlite"
       THEN BeginRebuild("rename_column", Column(n, t), old, FALSE,
                         [o \in {old} |-> Column(n, t)])
       ELSE IF dialect = "mysql"
       THEN /\ Fits(live, old, t)
            /\ Call("rename_column", Column(n, t), old, FALSE)
            /\ statements' = alter_column_native(dialect, old)
            /\ live' = Retyped(Renamed(live, old, n), n, t)
            /\ UNCHANGED << reflected, old_table, position >>
       ELSE /\ Call("rename_column", Column(n, t), old, FALSE)
            /\ statements' = << "RENAME COLUMN" >>
            /\ live' = Renamed(live, old, n)
            /\ UNCHANGED << reflected, old_table, position >>
    /\ UNCHANGED << dialect, engine_vars >>

\* alter_column, lines 149-177.  Without old_name the column altered is
\* col.name.
alter_column ==
  \E n \in ColumnNames, t \in ColumnTypes,
     old_name \in DOMAIN live.columns \cup {NoName}, length_only \in BOOLEAN :
    LET col == Column(n, t)
        old == IF old_name = NoName THEN n ELSE old_name
    IN /\ old \in DOMAIN live.columns
       /\ old_name # NoName => n \notin DOMAIN live.columns
       /\ IF dialect = "sqlite"
          THEN IF LengthOnlyReturns(length_only)
               THEN /\ Call("alter_column", col, old_name, length_only)
                    /\ statements' = << >>
                    /\ UNCHANGED << live, reflected, old_table, position >>
               ELSE BeginRebuild("alter_column", col, old_name, length_only,
                                 [o \in {old} |-> col])
          ELSE /\ Fits(live, old, t)
               /\ Call("alter_column", col, old_name, length_only)
               /\ statements' = alter_column_native(dialect, old_name)
               /\ live' = Retyped(Renamed(live, old, n), n, t)
               /\ UNCHANGED << reflected, old_table, position >>
       /\ UNCHANGED << dialect, engine_vars >>

\* An upgrade method calls rebuild_sqlite itself, with a map of two columns
\* (lines 179-203).
rebuild_sqlite ==
  /\ dialect = "sqlite"
  /\ \E keys \in SUBSET DOMAIN live.columns :
       /\ Cardinality(keys) = 2
       /\ \E colmap \in ColumnMaps(live.columns, keys) :
            BeginRebuild("rebuild_sqlite", NoColumn, NoName, FALSE, colmap)
  /\ UNCHANGED << dialect, engine_vars >>

\* Line 204: table.create() of the reflected table as it is now.
rebuild_create ==
  /\ position = "renamed"
  /\ live' = Table(reflected, EmptyBag)
  /\ statements' = Append(statements, "CREATE TABLE")
  /\ position' = "created"
  /\ UNCHANGED << dialect, reflected, old_table, operation, before, operations,
                  engine_vars >>

\* Lines 205-206: the rows are copied.
rebuild_copy ==
  /\ position = "created"
  /\ live' = [live EXCEPT !.rows =
                InsertSelect(old_table.rows, DOMAIN live.columns, operation.fullcolmap)]
  /\ statements' = Append(statements, "INSERT SELECT")
  /\ position' = "copied"
  /\ UNCHANGED << dialect, reflected, old_table, operation, before, operations,
                  engine_vars >>

\* Mutant of rebuild_drop: rebuild_sqlite returns without dropping the old
\* table.
rebuild_drop_leaving_old ==
  /\ position = "copied"
  /\ statements' = statements
  /\ position' = "none"
  /\ UNCHANGED << dialect, live, reflected, old_table, operation, before,
                  operations, engine_vars >>

\* Line 207: the old table is dropped; rebuild_sqlite returns.
rebuild_drop ==
  /\ position = "copied"
  /\ old_table' = NoTable
  /\ statements' = Append(statements, "DROP TABLE")
  /\ position' = "none"
  /\ UNCHANGED << dialect, live, reflected, operation, before, operations,
                  engine_vars >>

NextOps ==
  \/ add_column
  \/ drop_column
  \/ rename_column
  \/ alter_column
  \/ rebuild_sqlite
  \/ rebuild_create
  \/ rebuild_copy
  \/ rebuild_drop

SpecOps == InitOps /\ [][NextOps]_vars

\* ------------------------------------------------------------------ properties

\* The tables t reaches through foreign keys, directly or transitively.
RECURSIVE Closure(_)
Closure(S) ==
  LET N == S \cup UNION { foreign_keys[u] : u \in S }
  IN IF N = S THEN S ELSE Closure(N)

Dependencies(t) == Closure(foreign_keys[t])

\* The foreign-key graph has a cycle.
Cyclic == \E t \in UserTables : t \in Dependencies(t)

\* What the open transaction sees of table t: its own writes over the
\* committed state.
SeenStructure(t) == IF trans.structure # 0 THEN trans.structure ELSE db_tables[t]
SeenRecord(t) == IF trans.record # 0 THEN trans.record ELSE records[t]

\* C1: when step N-1 -> N of a table raises, the store keeps the table at
\* N-1 (its structure too); after the process died, every table with a row
\* has the structure its row says; a run only ever executes the step that
\* follows the last one applied, so a committed step is never run again; and
\* a run that returns normally has brought every user table to its target.
ResumeFromLastCommitted ==
  /\ (phase = "idle" /\ failed_at # << >>) =>
       /\ records[failed_at[1]] = failed_at[2] - 1
       /\ db_tables[failed_at[1]] = failed_at[2] - 1
  /\ (result = "died") =>
       \A t \in UserTables : records[t] # 0 => db_tables[t] = records[t]
  /\ \A i \in 1..Len(stack) :
       stack[i].pc = "steps" =>
         /\ SeenStructure(stack[i].table) = stack[i].next - 1
         /\ SeenRecord(stack[i].table) = stack[i].next - 1
  /\ (result = "ok") =>
       \A t \in UserTables : records[t] = version[t] /\ db_tables[t] = version[t]

\* C1 witness: step 2 -> 3 raised in an earlier run, the store stayed at 2,
\* and the corrected run has executed step 2 -> 3 and nothing else on the table.
ResumedAfterFailure ==
  /\ phase # "idle" /\ stack # << >>
  /\ failed_at # << >>
  /\ failed_at[2] = 3
  /\ Top.table = failed_at[1]
  /\ Top.pc = "commit"
  /\ records[Top.table] = 2
  /\ trans.record = 3
  /\ ddl[Top.table] = 1

\* C2: whenever no run is in progress, every table's committed structure is
\* the one its committed Schema row accounts for (no table without its row,
\* no row behind or ahead of the structure).
AtomicBookkeeping ==
  phase = "idle" => \A t \in Tables : db_tables[t] = records[t]

\* C3: DDL has been executed on a table in this run only if every table it
\* depends on, directly or transitively, exists and is recorded at its
\* declared version.
DependenciesFirst ==
  \A a \in UserTables :
    ddl[a] > 0 =>
      \A b \in Dependencies(a) : has_table(b) /\ records[b] = version[b]

\* C3 witness: credentials reaches accounts only through identities; in one
\* run accounts was upgraded by a step and credentials received DDL.
TransitiveDependencyUpgraded ==
  /\ "accounts" \in Dependencies("credentials") \ foreign_keys["credentials"]
  /\ ddl["credentials"] > 0
  /\ records0["accounts"] # 0
  /\ records0["accounts"] < records["accounts"]

\* C4: a run of upgrade_schemas that follows a successful run with nothing
\* changed in between executes no DDL and leaves every Schema row as it was.
SecondRunNoOp ==
  repeat => /\ ddl = NoDDL
            /\ records = records0

\* C4 witness: the second run has returned, over tables that went through
\* upgrade steps.
SecondRunReturned ==
  /\ repeat
  /\ phase = "idle"
  /\ result = "ok"
  /\ \E t \in UserTables : version[t] > 1

\* C5: after upgrade_schemas returns normally, every versioned table is
\* recorded at its declared version.
SuccessReachesTarget ==
  (result = "ok") => \A t \in Tables : records[t] = version[t]

\* C6: no step of any run, successful or failed, and no check lowers the
\* recorded version of a table (no row counts as 0).
NeverDecreases ==
  [][\A t \in Tables : records'[t] >= records[t]]_vars

\* C6 witness: a run that failed after it had raised the version of a table
\* that was already recorded.
FailedAfterAdvance ==
  /\ result = "failed"
  /\ \E t \in UserTables : records0[t] # 0 /\ records[t] > records0[t]

\* A table recorded at the start of the run whose chain of upgrade methods
\* from the recorded version to the declared one has a gap.
GapAhead(t) ==
  /\ records0[t] # 0
  /\ \E n \in (records0[t] + 1)..version[t] : << t, n >> \in missing

\* C7: for a table whose chain of upgrade methods has a gap, no upgrade step
\* is executed and its recorded version stays what it was.
NoPartialApplication ==
  \A t \in UserTables :
    GapAhead(t) => ddl[t] = 0 /\ records[t] = records0[t]

\* C8: with a cyclic foreign-key graph no table is created and no DDL is
\* executed (stated for the tables other than the version store's own; the
\* schema table itself is created before any foreign key is looked at).
CycleRejectedBeforeDDL ==
  Cyclic => \A t \in UserTables : db_tables[t] = 0 /\ ddl[t] = 0

\* C9: the step in which upgrade_schemas raises leaves no transaction open
\* and no call pending, touches no table other than the one being upgraded,
\* lowers nothing that was committed, and from the failed state nothing
\* changes the database until a new run is started.
FailureStopsRun ==
  [][ /\ (result' = "failed" /\ result # "failed") =>
           /\ phase' = "idle" /\ stack' = << >> /\ trans' = NoTrans
           /\ \A t \in Tables :
                /\ records'[t] >= records[t]
                /\ db_tables'[t] >= db_tables[t]
                /\ (stack = << >> \/ t # Top.table) =>
                     /\ records'[t] = records[t]
                     /\ db_tables'[t] = db_tables[t]
                     /\ ddl'[t] = ddl[t]
      /\ (result = "failed" /\ result' # "running") =>
           /\ phase' = "idle"
           /\ UNCHANGED << db_tables, records, trans >>
    ]_vars

\* C9 witness: a run failed in an upgrade step after it had committed a version for one table
\* and before it reached another, which is still missing.
FailedMidway ==
  /\ result = "failed"
  /\ failed_at # << >>
  /\ \E t \in UserTables : records[t] # records0[t]
  /\ \E t \in UserTables : db_tables[t] = 0 /\ records[t] = 0

\* C10: check_schema_versions changes no table, no Schema row and no
\* transaction, whatever it reports.
CheckReadOnly ==
  [][ result' \in {"up_to_date", "out_of_date", "check_error"} =>
        UNCHANGED << db_tables, records, trans >> ]_vars

\* C10 witness: the check reported out-of-date tables while some tables
\* exist and some Schema rows are behind.
CheckReportedOutOfDate ==
  /\ result = "out_of_date"
  /\ upgrades # {}
  /\ \E t \in UserTables : has_table(t) /\ records[t] # 0 /\ records[t] < version[t]

\* The results check_schema_versions can leave.
CheckResults == {"up_to_date", "out_of_date", "check_error"}

\* The tables whose stored version is not the declared one (no row counts as
\* a stored version that does not match).
Lagging == { t \in Tables : records[t] # version[t] }

\* C11: after check_schema_versions, it has raised "out of date" exactly when
\* some table's stored version is not its declared version, and the tables it
\* names are exactly those tables.
CheckReportsExactlyLagging ==
  result \in CheckResults =>
    /\ (result = "out_of_date") <=> (Lagging # {})
    /\ upgrades = Lagging

\* C12: when check_schema_versions has asked is_up_to_date of every table, the
\* answer for a table is true when the table exists, its Schema row exists and
\* the row's version is the declared one, and false in every other case.
UpToDateIffExistsRecordedEqual ==
  result \in CheckResults =>
    \A t \in Tables :
      is_up_to_date_result(t) =
        IF has_table(t) /\ records[t] # 0 /\ records[t] = version[t]
        THEN "true" ELSE "false"

\* C13: a check made while the schema table does not exist reports every
\* table as out of date, whichever user tables exist, and no error of the
\* query leaves it.
StoreUnavailableMeansLagging ==
  (result \in CheckResults /\ ~has_table(SchemaTable)) =>
    /\ result = "out_of_date"
    /\ upgrades = Tables

\* C14: upgrade_schema goes to create a table exactly when the table does not
\* exist: the statement CREATE TABLE is never reached for a table that exists,
\* and the upgrade steps and the plain commit only for a table that does.
CreatesOnlyMissingTables ==
  \A i \in 1..Len(stack) :
    /\ stack[i].pc = "create" => ~has_table(stack[i].table)
    /\ stack[i].pc = "steps" => has_table(stack[i].table)
    /\ stack[i].pc = "commit" => has_table(stack[i].table)

AtMostOneRecord ==
  \A t \in Tables :
    /\ row_count[t] + (IF trans.table = t /\ trans.insert THEN 1 ELSE 0) <= 1
    /\ (row_count[t] = 1) <=> (records[t] # 0)
    /\ t \in recorded => (records[t] # 0 /\ row_count[t] = 1)

\* C20 witness: a run raised in a step of a table after it had committed an
\* earlier step of the same table: the rollback left the table's one row, at
\* the committed version.
RecordKeptThroughRollback ==
  /\ result = "failed"
  /\ failed_at # << >>
  /\ records0[failed_at[1]] # 0
  /\ records[failed_at[1]] > records0[failed_at[1]]
  /\ row_count[failed_at[1]] = 1

\* The columns of the table before the operation that its column map does
\* not drop, and the name each has afterwards.
KeptColumns ==
  { o \in DOMAIN before.columns :
      o \in DOMAIN operation.colmap => operation.colmap[o] # NoColumn }

NewName(o) ==
  IF o \in DOMAIN operation.colmap THEN operation.colmap[o].name ELSE o

\* A row of the table before the operation, read through the new names.
Carried(r) ==
  [n \in { NewName(o) : o \in KeptColumns } |->
     r[CHOOSE o \in KeptColumns : NewName(o) = n]]

\* C16: once the rows are copied, and after the rebuild has returned, the
\* table holds as many rows as before the rebuild, and its rows are the rows
\* it had, each with every cell that was not dropped, under the new name of
\* the column where the map renames it, and nothing else.
RebuildPreservesRows ==
  (operation.rebuild /\ position \in {"copied", "none"}) =>
    /\ BagCardinality(live.rows) = BagCardinality(before.rows)
    /\ live.rows = BagOfAll(Carried, before.rows)

\* C16 witness: a rebuild has returned that renamed a column of a table of
\* two rows, and the value "bb" is read under the new name.
RebuiltWithRename ==
  /\ operation.rebuild /\ position = "none"
  /\ BagCardinality(live.rows) = 2
  /\ \E o \in DOMAIN operation.colmap :
       /\ operation.colmap[o] # NoColumn
       /\ operation.colmap[o].name # o
       /\ \E r \in BagToSet(live.rows) : r[operation.colmap[o].name] = "bb"

\* C17: from the creation of the new table on, its columns are the columns
\* the map does not mention, with the name and type they had, and the column
\* specified for every entry mapped to a column; an entry mapped to None
\* leaves no column.
RebuildColumnSet ==
  (operation.rebuild /\ position \in {"created", "copied", "none"}) =>
    LET M == operation.colmap
        mapped == { o \in DOMAIN M : M[o] # NoColumn }
    IN /\ DOMAIN live.columns =
            (DOMAIN before.columns \ DOMAIN M) \cup { M[o].name : o \in mapped }
       /\ \A n \in DOMAIN before.columns \ DOMAIN M :
            live.columns[n] = before.columns[n]
       /\ \A o \in mapped : live.columns[M[o].name] = M[o].type

\* C17 witness: a rebuild of a table of three columns has returned whose map
\* drops one column and gives another a new type; the third is not mentioned.
RebuiltWithDropAndRename ==
  /\ operation.rebuild /\ position = "none"
  /\ Cardinality(DOMAIN before.columns) = 3
  /\ \E o1, o2 \in DOMAIN operation.colmap :
       /\ operation.colmap[o1] = NoColumn
       /\ operation.colmap[o2] # NoColumn
       /\ operation.colmap[o2].type # before.columns[o2]

\* The statements of a completed rebuild.
RebuildStatements == << "RENAME TO", "CREATE TABLE", "INSERT SELECT", "DROP TABLE" >>

\* The statements the behavioural matrix gives for the operation called last.
Dispatched ==
  IF operation.kind = "add_column" THEN << "ADD COLUMN" >>
  ELSE IF dialect = "sqlite" THEN RebuildStatements
  ELSE IF operation.kind = "drop_column" THEN << "DROP COLUMN" >>
  ELSE IF dialect = "mysql" THEN << "CHANGE" >>
  ELSE IF operation.kind = "rename_column" THEN << "RENAME COLUMN" >>
  ELSE IF operation.old_name # NoName
       THEN << "RENAME COLUMN", "ALTER COLUMN TYPE" >>
  ELSE << "ALTER COLUMN TYPE" >>

\* C18: when add_column, drop_column, rename_column or alter_column (other
\* than a length_only change on sqlite) has returned, the statements it
\* executed are those of the matrix, in that order, and it went through the
\* rebuild exactly when the dialect is sqlite and the operation is not
\* add_column.
DispatchMatrix ==
  ( /\ position = "none"
    /\ operation.kind \in {"add_column", "drop_column", "rename_column", "alter_column"}
    /\ ~(dialect = "sqlite" /\ operation.kind = "alter_column" /\ operation.length_only) ) =>
    /\ statements = Dispatched
    /\ operation.rebuild <=> (dialect = "sqlite" /\ operation.kind # "add_column")

\* C18 witness: alter_column with an old name has returned on the
\* full-featured dialect, after two statements.
AlteredWithOldName ==
  /\ position = "none"
  /\ dialect = "postgres"
  /\ operation.kind = "alter_column"
  /\ operation.old_name # NoName
  /\ Len(statements) = 2

\* C19: after alter_column with length_only on sqlite no statement was
\* executed, no rebuild was started, and the table, its rows included, is as
\* it was when the operation was called.
LengthOnlyNoOp ==
  (dialect = "sqlite" /\ operation.kind = "alter_column" /\ operation.length_only) =>
    /\ statements = << >>
    /\ ~operation.rebuild
    /\ position = "none"
    /\ ~old_table.exists
    /\ live = before

\* C19 witness: alter_column with length_only to the short type has returned
\* on sqlite for a column that holds a value longer than the short type.
LengthOnlyOverLength ==
  /\ dialect = "sqlite" /\ position = "none"
  /\ operation.kind = "alter_column" /\ operation.length_only
  /\ operation.old_name = NoName
  /\ operation.col.type = "short"
  /\ \E r \in BagToSet(live.rows) :
       Length(r[operation.col.name]) > Capacity(operation.col.type)

\* C21: a version a step has set and not yet committed is the committed
\* version plus one, and the structure the step made is that version's; a
\* call that is running steps runs next the step that follows the steps the
\* run has already made from the version stored at its start, none beyond the
\* declared version; and after a run that returned normally the steps made
\* on a table that was behind are as many as the versions it was behind.
StepsInOrder ==
  /\ \A t \in UserTables :
       (trans.table = t /\ trans.record # 0 /\ ~trans.insert) =>
         /\ trans.record = records[t] + 1
         /\ trans.structure = trans.record
  /\ \A i \in 1..Len(stack) :
       stack[i].pc = "steps" =>
         /\ records0[stack[i].table] # 0
         /\ stack[i].next = records0[stack[i].table] + ddl[stack[i].table] + 1
         /\ stack[i].next <= version[stack[i].table]
  /\ (result = "ok") =>
       \A t \in UserTables :
         records0[t] # 0 =>
           /\ ddl[t] = version[t] - records0[t]
           /\ records[t] = version[t]

\* C21 witness: a table stored at version 1 and declared at version 3 went
\* through a run that returned normally: two steps, version 3 stored.
TwoStepsBehindUpgraded ==
  /\ result = "ok"
  /\ \E t \in UserTables :
       records0[t] = 1 /\ version[t] = 3 /\ records[t] = 3 /\ ddl[t] = 2

\* C22: a rebuild has executed, at each of its positions, the statements up
\* to that position in the order rename, create, copy, drop: after the rename
\* only the old table exists and it is the table as it was; from the creation
\* on the original name holds a table of the new structure and the old table
\* still holds the rows; after the rebuild has returned the four statements
\* were executed in that order, no old table exists and the original name
\* holds the table with the new structure.
RebuildOrder ==
  operation.rebuild =>
    /\ statements = SubSeq(RebuildStatements, 1, Len(statements))
    /\ position = "renamed" =>
         (Len(statements) = 1 /\ ~live.exists /\ old_table.exists /\ old_table = before)
    /\ position = "created" =>
         (Len(statements) = 2 /\ live.exists /\ old_table.exists /\ old_table = before
          /\ live.rows = EmptyBag)
    /\ position = "copied" =>
         (Len(statements) = 3 /\ live.exists /\ old_table.exists /\ old_table = before)
    /\ position = "none" =>
         (Len(statements) = 4 /\ live.exists /\ ~old_table.exists)
    /\ live.exists =>
         live.columns = RebuiltColumns(before.columns, operation.colmap)

\* C22 witness: a rebuild of a table with rows that an upgrade method called
\* with a map of two columns has returned.
RebuildCompleted ==
  /\ operation.rebuild /\ operation.kind = "rebuild_sqlite"
  /\ position = "none"
  /\ statements = RebuildStatements
  /\ BagCardinality(before.rows) > 0

\* C23: while upgrade_schemas is in the call of line 354 no other table has
\* been touched: the only call is the schema table's, no DDL has run on a
\* user table and no transaction of a user table is open; and once it passes
\* through the tables the schema table exists and its own row is written.
BootstrapFirst ==
  /\ (phase = "bootstrap") =>
       /\ \A i \in 1..Len(stack) : stack[i].table = SchemaTable
       /\ \A t \in UserTables : ddl[t] = 0
       /\ trans.table \notin UserTables
       /\ records = records0
  /\ (phase = "loop") =>
       /\ has_table(SchemaTable)
       /\ records[SchemaTable] # 0

\* C24: a check made after upgrade_schemas returned normally, with nothing
\* changed in between, finds every table up to date.
CheckAfterUpgradeClean ==
  (settled /\ result \in CheckResults) =>
    (result = "up_to_date" /\ upgrades = {})

\* C25: when alter_column called with an old name has returned, the table
\* has a column of the new name and none of the old name, on every dialect
\* and with and without length_only.
AlterRenames ==
  (operation.kind = "alter_column" /\ operation.old_name # NoName /\ position = "none") =>
    /\ live.exists
    /\ operation.col.name \in DOMAIN live.columns
    /\ operation.old_name \notin DOMAIN live.columns

\* C26: while upgrade_schemas runs at most one session is open, and it is
\* the session of the innermost call: every calling upgrade_schema is still
\* in its loop over the foreign keys and has opened none, and an open
\* transaction is the innermost call's.
OneSessionAtATime ==
  (phase # "idle") =>
    /\ Cardinality(sessions) <= 1
    /\ \A i \in 1..(Len(stack) - 1) :
         stack[i].pc = "fks" /\ stack[i].table \notin sessions
    /\ sessions # {} => (stack # << >> /\ sessions = {Top.table})
    /\ trans # NoTrans => (stack # << >> /\ trans.table = Top.table)

\* C27: a table whose upgrade_schema is not running has no open session, no
\* upgrade_session and no upgrade_reflected_model.
NothingOutlivesTheCall ==
  \A t \in Tables :
    (\A i \in 1..Len(stack) : stack[i].table # t) =>
      /\ t \notin sessions
      /\ t \notin upgrade_session
      /\ t \notin upgrade_reflected_model

====
